---- MODULE Spec2Model ----
(***************************************************************************)
(* Session state engine of the MCP Restaurant Server (src/main.ts).        *)
(*                                                                         *)
(* Strings are sequences of ASCII code units, so that toLowerCase, trim,   *)
(* parseInt, parseFloat and the relational operators on strings are        *)
(* computed the way the JavaScript run time computes them.  undefined is   *)
(* encoded as the one-element sequence <<-1>>, which is no string.         *)
(* Numbers are records [nan, v]; a price v is held in hundredths.          *)
(* The cart total is summed in IEEE 754 binary64, as the Number operators  *)
(* do, and shown through toFixed(2).                                       *)
(***************************************************************************)
EXTENDS Integers, Sequences, FiniteSets, TLC

(* ------------------------------ bounds --------------------------------- *)
\* largest quantity a caller passes to addItemToCart
MaxQty == 2
\* largest quantity a single cart line is allowed to reach in the model
MaxLineQty == 2
\* largest reading of the clock (Date.now()) the model follows
MaxClock == 1

(* ------------------------------ strings -------------------------------- *)
Undef == <<-1>>
IsUndef(x) == x = Undef

\* String.prototype.toLowerCase on ASCII text
toLowerCase(s) == [i \in 1..Len(s) |-> IF s[i] >= 65 /\ s[i] <= 90 THEN s[i] + 32 ELSE s[i]]

IsSpace(c) == c \in {9, 10, 11, 12, 13, 32}
IsDigit(c) == c >= 48 /\ c <= 57

RECURSIVE LeadingSpaces(_, _)
LeadingSpaces(s, i) ==
    IF i <= Len(s) /\ IsSpace(s[i]) THEN LeadingSpaces(s, i + 1) ELSE i - 1

RECURSIVE TrailingSpaces(_, _)
TrailingSpaces(s, i) ==
    IF i >= 1 /\ IsSpace(s[i]) THEN TrailingSpaces(s, i - 1) ELSE Len(s) - i

\* String.prototype.trim
trim(s) ==
    LET a == LeadingSpaces(s, 1)
        b == TrailingSpaces(s, Len(s))
    IN  IF a = Len(s) THEN <<>> ELSE SubSeq(s, a + 1, Len(s) - b)

\* the relational operator < on two strings: code unit by code unit, a proper
\* prefix is smaller
RECURSIVE StrLessFrom(_, _, _)
StrLessFrom(a, b, i) ==
    IF i > Len(a) \/ i > Len(b) THEN Len(a) < Len(b)
    ELSE IF a[i] # b[i] THEN a[i] < b[i]
    ELSE StrLessFrom(a, b, i + 1)

StrLess(a, b) == StrLessFrom(a, b, 1)

(* ------------------------------ numbers -------------------------------- *)
NaN == [nan |-> TRUE, v |-> 0]
Num(n) == [nan |-> FALSE, v |-> n]

\* a < b where b is an integer and a may be NaN (every comparison with NaN is false)
NumLess(a, n) == ~a.nan /\ a.v < n
\* a - n
NumMinus(a, n) == IF a.nan THEN NaN ELSE Num(a.v - n)
\* a + b
NumPlus(a, b) == IF a.nan \/ b.nan THEN NaN ELSE Num(a.v + b.v)
\* n * a for an integer n
NumTimes(n, a) == IF a.nan THEN NaN ELSE Num(n * a.v)

RECURSIVE DigitRun(_, _)
\* number of consecutive decimal digits of s starting at position i
DigitRun(s, i) == IF i <= Len(s) /\ IsDigit(s[i]) THEN 1 + DigitRun(s, i + 1) ELSE 0

RECURSIVE DigitsValue(_, _, _)
\* value of the n digits of s that start at position i
DigitsValue(s, i, n) ==
    IF n = 0 THEN 0 ELSE DigitsValue(s, i, n - 1) * 10 + (s[i + n - 1] - 48)

\* parseInt(x, 10): leading white space, an optional sign, then the longest run
\* of digits; NaN when there is no digit (undefined reads as "undefined")
parseInt(x) ==
    IF IsUndef(x) THEN NaN
    ELSE LET i == LeadingSpaces(x, 1) + 1
             signed == i <= Len(x) /\ x[i] \in {43, 45}
             j == IF signed THEN i + 1 ELSE i
             n == DigitRun(x, j)
             mag == DigitsValue(x, j, n)
         IN  IF n = 0 THEN NaN
             ELSE IF signed /\ x[i] = 45 THEN Num(0 - mag) ELSE Num(mag)

\* parseFloat(x): leading white space, an optional sign, digits, an optional
\* fraction; NaN when neither part has a digit.  The value is returned in
\* hundredths; the inputs of the model carry at most two fraction digits and
\* no exponent.
parseFloat(x) ==
    IF IsUndef(x) THEN NaN
    ELSE LET i == LeadingSpaces(x, 1) + 1
             signed == i <= Len(x) /\ x[i] \in {43, 45}
             j == IF signed THEN i + 1 ELSE i
             n == DigitRun(x, j)
             dot == j + n <= Len(x) /\ x[j + n] = 46
             f == IF dot THEN DigitRun(x, j + n + 1) ELSE 0
             whole == DigitsValue(x, j, n)
             frac == IF f = 0 THEN 0
                     ELSE IF f = 1 THEN 10 * DigitsValue(x, j + n + 1, 1)
                     ELSE DigitsValue(x, j + n + 1, 2)
             mag == whole * 100 + frac
         IN  IF n = 0 /\ f = 0 THEN NaN
             ELSE IF signed /\ x[i] = 45 THEN Num(0 - mag) ELSE Num(mag)

(* ------------------- binary64 values of prices and totals -------------- *)
\* The Number that parseFloat returns, and that * and + work on, is an IEEE 754
\* binary64.  A natural number of any size is held as its digits in base
\* 2^15, least significant first, without leading zero digits.  A positive
\* binary64 is held as its 53-bit significand m and the exponent e of the
\* lowest bit of m: its value is m * 2^e.  The prices and totals followed
\* here are far from the ends of the exponent range.
Base == 32768

Zero == [m |-> <<>>, e |-> 0]

Limb(a, i) == IF i <= Len(a) THEN a[i] ELSE 0

RECURSIVE StripTop(_)
\* a without its leading zero digits
StripTop(a) ==
    IF a # <<>> /\ a[Len(a)] = 0 THEN StripTop(SubSeq(a, 1, Len(a) - 1)) ELSE a

RECURSIVE BigOf(_)
\* the digits of a natural number
BigOf(n) == IF n = 0 THEN <<>> ELSE <<n % Base>> \o BigOf(n \div Base)

RECURSIVE BigAddFrom(_, _, _, _)
BigAddFrom(a, b, i, carry) ==
    IF i > Len(a) /\ i > Len(b) THEN (IF carry = 0 THEN <<>> ELSE <<carry>>)
    ELSE LET s == Limb(a, i) + Limb(b, i) + carry
         IN  <<s % Base>> \o BigAddFrom(a, b, i + 1, s \div Base)

\* a + b
BigAdd(a, b) == BigAddFrom(a, b, 1, 0)

RECURSIVE BigTimesFrom(_, _, _, _)
BigTimesFrom(n, a, i, carry) ==
    IF i > Len(a) THEN (IF carry = 0 THEN <<>> ELSE <<carry>>)
    ELSE LET p == n * a[i] + carry
         IN  <<p % Base>> \o BigTimesFrom(n, a, i + 1, p \div Base)

\* n * a for a natural number n < 2^15
BigTimes(n, a) == IF n = 0 THEN <<>> ELSE BigTimesFrom(n, a, 1, 0)

RECURSIVE BigDivFrom(_, _, _, _)
\* long division of the digits 1..i of a by d <= 100, r being the remainder
\* of the digits above
BigDivFrom(a, d, i, r) ==
    IF i = 0 THEN [q |-> <<>>, r |-> r]
    ELSE LET cur == r * Base + a[i]
             lower == BigDivFrom(a, d, i - 1, cur % d)
         IN  [q |-> Append(lower.q, cur \div d), r |-> lower.r]

\* quotient and remainder of a by d
BigDiv(a, d) ==
    LET x == BigDivFrom(a, d, Len(a), 0) IN [q |-> StripTop(x.q), r |-> x.r]

\* a * 2^k
BigShiftLeft(a, k) ==
    IF a = <<>> THEN <<>>
    ELSE [i \in 1..(k \div 15) |-> 0] \o BigTimes(2^(k % 15), a)

\* a \div 2^k, and whether a bit was shifted out
BigShiftRight(a, k) ==
    LET w == k \div 15
        s == k % 15
        rest == IF w >= Len(a) THEN <<>> ELSE SubSeq(a, w + 1, Len(a))
    IN  [q |-> StripTop([i \in 1..Len(rest) |->
                            (rest[i] \div 2^s) + (Limb(rest, i + 1) % 2^s) * 2^(15 - s)]),
         inexact |-> \/ \E i \in 1..Len(a) : i <= w /\ a[i] # 0
                     \/ (rest # <<>> /\ rest[1] % 2^s # 0)]

RECURSIVE BitLen(_)
BitLen(n) == IF n = 0 THEN 0 ELSE 1 + BitLen(n \div 2)

\* number of bits of a
BigBitLen(a) == IF a = <<>> THEN 0 ELSE 15 * (Len(a) - 1) + BitLen(a[Len(a)])

\* the binary64 nearest to a * 2^e, ties to the even significand
RoundToDouble(a, e) ==
    LET L == BigBitLen(a)
        k == L - 53
    IN  IF L = 0 THEN Zero
        ELSE IF L <= 53 THEN [m |-> BigShiftLeft(a, 53 - L), e |-> e - (53 - L)]
        ELSE LET h == BigShiftRight(a, k - 1)
                 kept == BigShiftRight(h.q, 1).q
                 up == h.q[1] % 2 = 1 /\ (h.inexact \/ kept[1] % 2 = 1)
                 r == IF up THEN BigAdd(kept, <<1>>) ELSE kept
             IN  IF BigBitLen(r) = 54 THEN [m |-> BigShiftRight(r, 1).q, e |-> e + k + 1]
                 ELSE [m |-> r, e |-> e + k]

\* parseFloat of a decimal text whose value is cents/100, cents >= 0: the
\* binary64 nearest to that value.  The quotient of cents * 2^64 by 100 has
\* more than 55 bits; a non-zero remainder is kept as one more low bit, which
\* only tells a tie from a value above it.
DoubleOfCents(cents) ==
    LET d == BigDiv(BigShiftLeft(BigOf(cents), 64), 100)
    IN  IF d.r = 0 THEN RoundToDouble(d.q, -64)
        ELSE RoundToDouble(BigAdd(BigTimes(2, d.q), <<1>>), -65)

\* x + y
DoublePlus(x, y) ==
    IF x = Zero THEN y
    ELSE IF y = Zero THEN x
    ELSE LET e == IF x.e < y.e THEN x.e ELSE y.e
         IN  RoundToDouble(BigAdd(BigShiftLeft(x.m, x.e - e), BigShiftLeft(y.m, y.e - e)), e)

\* n * x for a natural number n < 2^15
DoubleTimes(n, x) == IF x = Zero THEN Zero ELSE RoundToDouble(BigTimes(n, x.m), x.e)

RECURSIVE BigToNat(_)
\* the natural number with the digits a
BigToNat(a) == IF a = <<>> THEN 0 ELSE a[1] + Base * BigToNat(Tail(a))

\* x.toFixed(2) as a number of hundredths: the integer n for which n/100 - x
\* is closest to zero, the larger one of two
toFixed2(x) ==
    LET n100 == BigTimes(100, x.m)
        h == BigShiftRight(n100, (0 - x.e) - 1)
        n == BigShiftRight(h.q, 1).q
    IN  IF x = Zero THEN 0
        ELSE IF x.e >= 0 THEN BigToNat(BigShiftLeft(n100, x.e))
        ELSE IF h.q # <<>> /\ h.q[1] % 2 = 1 THEN BigToNat(BigAdd(n, <<1>>))
        ELSE BigToNat(n)

(* ------------------------------- dates --------------------------------- *)
\* A delivery date text "YYYY-MM-DD" is held as its three fields; a text that
\* is no date at all has month 0.
IsLeap(y) == (y % 4 = 0 /\ y % 100 # 0) \/ y % 400 = 0

DaysInMonth(y, m) ==
    IF m = 2 THEN (IF IsLeap(y) THEN 29 ELSE 28)
    ELSE IF m \in {4, 6, 9, 11} THEN 30 ELSE 31

\* isValid(new Date(deliveryDate)) for a date-only text
isValid(dt) == dt.m \in 1..12 /\ dt.d >= 1 /\ dt.d <= DaysInMonth(dt.y, dt.m)

\* days from 1970-01-01 to the civil date, proleptic Gregorian calendar
DaysFromCivil(dt) ==
    LET y == IF dt.m <= 2 THEN dt.y - 1 ELSE dt.y
        era == y \div 400
        yoe == y - era * 400
        mp == IF dt.m > 2 THEN dt.m - 3 ELSE dt.m + 9
        doy == (153 * mp + 2) \div 5 + dt.d - 1
        doe == yoe * 365 + yoe \div 4 - yoe \div 100 + doy
    IN  era * 146097 + doe - 719468

monday == <<109,111,110,100,97,121>>
tuesday == <<116,117,101,115,100,97,121>>
wednesday == <<119,101,100,110,101,115,100,97,121>>
thursday == <<116,104,117,114,115,100,97,121>>
friday == <<102,114,105,100,97,121>>
saturday == <<115,97,116,117,114,100,97,121>>
sunday == <<115,117,110,100,97,121>>

\* lower-cased names of the week days, Sunday first
WeekdayNames == <<sunday, monday, tuesday, wednesday, thursday, friday, saturday>>

\* weekday name of day number z (1970-01-01 was a Thursday)
WeekdayOfDay(z) == WeekdayNames[((z + 4) % 7) + 1]

\* new Date("YYYY-MM-DD") is midnight UTC of that date; the instant is held in
\* hours since the epoch
DateInstant(dt) == DaysFromCivil(dt) * 24

\* format(targetDate, 'EEEE').toLowerCase(): the weekday of the instant in the
\* host's local time, tzHours east of UTC
dayOfWeekOf(dt, tzHours) == WeekdayOfDay((DateInstant(dt) + tzHours) \div 24)

(* --------------------------- session state ----------------------------- *)
EmptySchedule == [k \in {} |-> 0]

\* serverState as constructed
InitState ==
    [isDataLoaded |-> FALSE,
     restaurantInfo |-> "",
     catalog |-> <<>>,
     schedule |-> EmptySchedule,
     cart |-> <<>>]

NoDate == [y |-> 0, m |-> 0, d |-> 0]

\* what a tool call hands back, with the arguments it was called with
NoResult ==
    [tool |-> "none", kind |-> "none",
     itemName |-> <<>>, quantity |-> 0,
     deliveryDate |-> NoDate, deliveryTime |-> <<>>,
     day |-> <<>>, open |-> <<>>, close |-> <<>>,
     avail |-> NaN, total |-> Num(0), orderId |-> 0]

(* ------------------------------- inputs -------------------------------- *)
\* the OpenTime text of a closed day
closed == <<99,108,111,115,101,100>>

Bun == <<66,117,110>>
bun == <<98,117,110>>
Pie == <<80,105,101>>

\* the names callers pass to addItemToCart
ItemNames == {Bun, bun, Pie}

Row(n, p, q) == [item_name |-> n, price |-> p, available_quantity |-> q]

\* Bun,5.00,2 / Pie,3.33,1
CatMenu == <<Row(Bun, <<53,46,48,48>>, <<50>>), Row(Pie, <<51,46,51,51>>, <<49>>)>>
\* bun,6.20,2 : Bun re-cased and re-priced, Pie gone
CatRecased == <<Row(bun, <<54,46,50,48>>, <<50>>)>>
\* Bun,5.00,1 / bun,5.00,2 : two rows for one name
CatDup == <<Row(Bun, <<53,46,48,48>>, <<49>>), Row(bun, <<53,46,48,48>>, <<50>>)>>
\* Pie,3.33 : the row has no available_quantity cell; then ,abc,2 : a row
\* without an item_name whose price is no number
CatBad == <<Row(Pie, <<51,46,51,51>>, Undef), Row(Undef, <<97,98,99>>, <<50>>)>>

ReadError == [ok |-> FALSE, text |-> "", rows |-> <<>>]
File(text, rows) == [ok |-> TRUE, text |-> text, rows |-> rows]

Story == File("story", <<>>)

SRow(d, o, c) == [DayOfWeek |-> d, OpenTime |-> o, CloseTime |-> c]

T0859 == <<48,56,58,53,57>>
T0900 == <<48,57,58,48,48>>
T1700 == <<49,55,58,48,48>>
T1701 == <<49,55,58,48,49>>
T2100 == <<50,49,58,48,48>>

\* "Monday ",09:00,21:00 / "monday"," 09:00","17:00" / "Tuesday",closed,closed
SchWeek ==
    <<SRow(<<77,111,110,100,97,121,32>>, T0900, T2100),
      SRow(monday, <<32,48,57,58,48,48>>, T1700),
      SRow(<<84,117,101,115,100,97,121>>, closed, closed)>>
\* monday,closed,closed / tuesday,9:00,17:00 (hour not padded)
SchShift ==
    <<SRow(monday, closed, closed),
      SRow(tuesday, <<57,58,48,48>>, T1700)>>
\* tuesday,09:00,21:00 / monday with no OpenTime and CloseTime cells
SchBad == <<SRow(tuesday, T0900, T2100), SRow(monday, Undef, Undef)>>

Disk(pdf, cat, sch) == [pdf |-> pdf, cat |-> cat, sch |-> sch]

\* what the three data files hold, or fail to yield, when a load reads them
Disks ==
    {Disk(Story, File("", CatMenu), File("", SchWeek)),
     Disk(Story, File("", CatRecased), File("", SchShift)),
     Disk(Story, File("", CatMenu), File("", SchBad)),
     Disk(Story, File("", CatDup), File("", SchWeek)),
     Disk(Story, File("", CatBad), File("", SchWeek)),
     Disk(ReadError, File("", CatMenu), File("", SchWeek)),
     Disk(Story, ReadError, File("", SchWeek)),
     Disk(Story, File("", CatRecased), ReadError)}

Date(y, m, d) == [y |-> y, m |-> m, d |-> d]
\* 2024-01-01 is a Monday
DeliveryDates == {Date(2024, 1, 1), Date(2024, 1, 2)}
DeliveryTimes == {T0859, T0900, T1700, T1701}
\* 2024-13-01 is no date
NoSuchDate == Date(2024, 13, 1)
\* the deliveryDate and deliveryTime callers pass to placeOrder: each date at
\* each time, and the text that is no date at one time
Deliveries == (DeliveryDates \X DeliveryTimes) \cup {<<NoSuchDate, T0900>>}

\* offsets of the host's time zone from UTC, in hours
TzOffsets == {-5, 5}

Completions == {"ok", "throw"}

(* ------------------------- loadRestaurantData -------------------------- *)
\* rawCatalog.map(row => ...)
CatalogFromRows(rows) ==
    [i \in 1..Len(rows) |->
        [item_name |-> rows[i].item_name,
         price |-> parseFloat(rows[i].price),
         available_quantity |-> parseInt(rows[i].available_quantity)]]

Truthy(x) == ~IsUndef(x) /\ x # <<>>

RECURSIVE ScheduleFillRawKey(_, _, _)
\* variant: the entry is stored under the DayOfWeek cell as it was read
ScheduleFillRawKey(rows, i, acc) ==
    IF i > Len(rows) THEN [threw |-> FALSE, schedule |-> acc]
    ELSE IF ~Truthy(rows[i].DayOfWeek) THEN ScheduleFillRawKey(rows, i + 1, acc)
    ELSE IF IsUndef(rows[i].OpenTime) \/ IsUndef(rows[i].CloseTime)
         THEN [threw |-> TRUE, schedule |-> acc]
    ELSE LET key == rows[i].DayOfWeek
             entry == [OpenTime |-> trim(rows[i].OpenTime), CloseTime |-> trim(rows[i].CloseTime)]
         IN  ScheduleFillRawKey(rows, i + 1,
                 [k \in (DOMAIN acc) \cup {key} |-> IF k = key THEN entry ELSE acc[k]])

RECURSIVE ScheduleFill(_, _, _)
\* rawSchedule.forEach(row => ...) from row i on, acc being serverState.schedule;
\* a row that has a DayOfWeek but no OpenTime or CloseTime throws at .trim()
ScheduleFill(rows, i, acc) ==
    IF i > Len(rows) THEN [threw |-> FALSE, schedule |-> acc]
    ELSE IF ~Truthy(rows[i].DayOfWeek) THEN ScheduleFill(rows, i + 1, acc)
    ELSE IF IsUndef(rows[i].OpenTime) \/ IsUndef(rows[i].CloseTime)
         THEN [threw |-> TRUE, schedule |-> acc]
    ELSE LET key == trim(toLowerCase(rows[i].DayOfWeek))
             entry == [OpenTime |-> trim(rows[i].OpenTime), CloseTime |-> trim(rows[i].CloseTime)]
         IN  ScheduleFill(rows, i + 1,
                 [k \in (DOMAIN acc) \cup {key} |-> IF k = key THEN entry ELSE acc[k]])

\* CatalogFromRows and ScheduleFill depend on the rows alone: the rows of the
\* files above are taken through them once, and the handler looks the outcome up
ParsedCatalogs == [rows \in {disk.cat.rows : disk \in Disks} |-> CatalogFromRows(rows)]
FilledSchedules ==
    [rows \in {disk.sch.rows : disk \in Disks} |-> ScheduleFill(rows, 1, EmptySchedule)]

\* lines 83-85: read and parse the PDF, then store the text
LoadInfoStep(s, pdf) ==
    IF ~pdf.ok THEN [failed |-> TRUE, s |-> s]
    ELSE [failed |-> FALSE, s |-> [s EXCEPT !.restaurantInfo = pdf.text]]

\* variant: a load that replaces the catalog also starts a fresh cart
LoadCatalogStepNewCart(s, cat) ==
    IF ~cat.ok THEN [failed |-> TRUE, s |-> s]
    ELSE [failed |-> FALSE,
          s |-> [s EXCEPT !.catalog = ParsedCatalogs[cat.rows], !.cart = <<>>]]

\* variant: a load adds the rows it read to the catalog it finds
LoadCatalogStepAppend(s, cat) ==
    IF ~cat.ok THEN [failed |-> TRUE, s |-> s]
    ELSE [failed |-> FALSE,
          s |-> [s EXCEPT !.catalog = s.catalog \o ParsedCatalogs[cat.rows]]]

\* lines 87-94: read and parse the catalog, then replace serverState.catalog
LoadCatalogStep(s, cat) ==
    IF ~cat.ok THEN [failed |-> TRUE, s |-> s]
    ELSE [failed |-> FALSE, s |-> [s EXCEPT !.catalog = ParsedCatalogs[cat.rows]]]

\* variant: a schedule once loaded is kept, and later loads leave it alone
LoadScheduleStepKeepsLoaded(s, sch) ==
    IF ~sch.ok THEN [failed |-> TRUE, s |-> s]
    ELSE LET f == FilledSchedules[sch.rows]
         IN  IF f.threw THEN [failed |-> TRUE, s |-> [s EXCEPT !.schedule = f.schedule]]
             ELSE IF s.isDataLoaded THEN [failed |-> FALSE, s |-> s]
             ELSE [failed |-> FALSE,
                   s |-> [s EXCEPT !.schedule = f.schedule, !.isDataLoaded = TRUE]]

\* lines 96-109: read and parse the schedule, reset serverState.schedule, fill
\* it row by row, then set isDataLoaded
LoadScheduleStep(s, sch) ==
    IF ~sch.ok THEN [failed |-> TRUE, s |-> s]
    ELSE LET f == FilledSchedules[sch.rows]
         IN  IF f.threw THEN [failed |-> TRUE, s |-> [s EXCEPT !.schedule = f.schedule]]
             ELSE [failed |-> FALSE,
                   s |-> [s EXCEPT !.schedule = f.schedule, !.isDataLoaded = TRUE]]

LoadResult(failed) ==
    [NoResult EXCEPT !.tool = "loadRestaurantData",
                     !.kind = IF failed THEN "LoadError" ELSE "Success"]

\* variant: a load that fails marks the data as not loaded
loadRestaurantDataUnloading(s, pdf, cat, sch) ==
    LET a == LoadInfoStep(s, pdf)
        b == LoadCatalogStep(a.s, cat)
        c == LoadScheduleStep(b.s, sch)
        unloaded(t) == [t EXCEPT !.isDataLoaded = FALSE]
    IN  IF a.failed THEN [s |-> unloaded(a.s), r |-> LoadResult(TRUE)]
        ELSE IF b.failed THEN [s |-> unloaded(b.s), r |-> LoadResult(TRUE)]
        ELSE IF c.failed THEN [s |-> unloaded(c.s), r |-> LoadResult(TRUE)]
        ELSE [s |-> c.s, r |-> LoadResult(FALSE)]

\* the whole handler, when nothing else runs between its awaits
loadRestaurantData(s, pdf, cat, sch) ==
    LET a == LoadInfoStep(s, pdf)
        b == LoadCatalogStep(a.s, cat)
        c == LoadScheduleStep(b.s, sch)
    IN  IF a.failed THEN [s |-> a.s, r |-> LoadResult(TRUE)]
        ELSE IF b.failed THEN [s |-> b.s, r |-> LoadResult(TRUE)]
        ELSE [s |-> c.s, r |-> LoadResult(c.failed)]

(* --------------------------- addItemToCart ----------------------------- *)
RECURSIVE FindCatalogCI(_, _, _)
\* serverState.catalog.find(item => item.item_name.toLowerCase() === itemName.toLowerCase())
\* from index i on: the index found, 0 for none, -1 when an item without an
\* item_name is reached first (undefined.toLowerCase() throws)
FindCatalogCI(catalog, itemName, i) ==
    IF i > Len(catalog) THEN 0
    ELSE IF IsUndef(catalog[i].item_name) THEN -1
    ELSE IF toLowerCase(catalog[i].item_name) = toLowerCase(itemName) THEN i
    ELSE FindCatalogCI(catalog, itemName, i + 1)

RECURSIVE FindCartCI(_, _, _)
\* serverState.cart.find(item => item.itemName.toLowerCase() === itemName.toLowerCase())
FindCartCI(cart, itemName, i) ==
    IF i > Len(cart) THEN 0
    ELSE IF toLowerCase(cart[i].itemName) = toLowerCase(itemName) THEN i
    ELSE FindCartCI(cart, itemName, i + 1)

AddResult(kind, itemName, quantity, avail) ==
    [NoResult EXCEPT !.tool = "addItemToCart", !.kind = kind,
                     !.itemName = itemName, !.quantity = quantity, !.avail = avail]

\* variant: a merge also refreshes the line's price from the catalog
CartAfterAddRepriced(cart, itemName, quantity, catalogItem) ==
    LET e == FindCartCI(cart, itemName, 1)
    IN  IF e # 0
        THEN [cart EXCEPT ![e].quantity = @ + quantity, ![e].price = catalogItem.price]
        ELSE Append(cart, [itemName |-> catalogItem.item_name,
                           quantity |-> quantity,
                           price |-> catalogItem.price])

\* variant: the cart is searched with === instead of ignoring case
CartAfterAddExactName(cart, itemName, quantity, catalogItem) ==
    IF \E e \in 1..Len(cart) : cart[e].itemName = itemName
    THEN LET e == CHOOSE e \in 1..Len(cart) : cart[e].itemName = itemName
         IN  [cart EXCEPT ![e].quantity = @ + quantity]
    ELSE Append(cart, [itemName |-> catalogItem.item_name,
                       quantity |-> quantity,
                       price |-> catalogItem.price])

\* lines 277-282: merge into the existing line or push a new one
CartAfterAdd(cart, itemName, quantity, catalogItem) ==
    LET e == FindCartCI(cart, itemName, 1)
    IN  IF e # 0 THEN [cart EXCEPT ![e].quantity = @ + quantity]
        ELSE Append(cart, [itemName |-> catalogItem.item_name,
                           quantity |-> quantity,
                           price |-> catalogItem.price])

\* variant: the message reports what is left after the cart's own quantity
InsufficientStockNetOfCart(s, c, itemName, quantity) ==
    LET e == FindCartCI(s.cart, itemName, 1)
    IN  AddResult("InsufficientStock", itemName, quantity,
                  IF e = 0 THEN s.catalog[c].available_quantity
                  ELSE NumMinus(s.catalog[c].available_quantity, s.cart[e].quantity))

\* lines 268-273: the rejection for the catalog item at index c, which
\* reports catalogItem.available_quantity
InsufficientStock(s, c, itemName, quantity) ==
    AddResult("InsufficientStock", itemName, quantity, s.catalog[c].available_quantity)

\* variant: an accepted add takes the units out of the catalog's stock
addItemToCartReserving(s, itemName, quantity) ==
    IF ~s.isDataLoaded
    THEN [s |-> s, r |-> AddResult("DataNotLoaded", itemName, quantity, NaN)]
    ELSE LET c == FindCatalogCI(s.catalog, itemName, 1)
         IN  IF c = -1 THEN [s |-> s, r |-> AddResult("Throw", itemName, quantity, NaN)]
             ELSE IF c = 0
             THEN [s |-> s, r |-> AddResult("ItemNotFound", itemName, quantity, NaN)]
             ELSE IF NumLess(s.catalog[c].available_quantity, quantity)
             THEN [s |-> s, r |-> InsufficientStock(s, c, itemName, quantity)]
             ELSE [s |-> [s EXCEPT !.cart = CartAfterAdd(s.cart, itemName, quantity, s.catalog[c]),
                                   !.catalog[c].available_quantity = NumMinus(@, quantity)],
                   r |-> AddResult("Success", s.catalog[c].item_name, quantity, NaN)]

addItemToCart(s, itemName, quantity) ==
    IF ~s.isDataLoaded
    THEN [s |-> s, r |-> AddResult("DataNotLoaded", itemName, quantity, NaN)]
    ELSE LET c == FindCatalogCI(s.catalog, itemName, 1)
         IN  IF c = -1 THEN [s |-> s, r |-> AddResult("Throw", itemName, quantity, NaN)]
             ELSE IF c = 0
             THEN [s |-> s, r |-> AddResult("ItemNotFound", itemName, quantity, NaN)]
             ELSE IF NumLess(s.catalog[c].available_quantity, quantity)
             THEN [s |-> s, r |-> InsufficientStock(s, c, itemName, quantity)]
             ELSE [s |-> [s EXCEPT !.cart = CartAfterAdd(s.cart, itemName, quantity, s.catalog[c])],
                   r |-> AddResult("Success", s.catalog[c].item_name, quantity, NaN)]

(* ------------------------ viewCart, listMenuItems ---------------------- *)
RECURSIVE CartTotalUnitPrices(_, _)
\* variant: the reducer adds item.price without the quantity (in hundredths)
CartTotalUnitPrices(cart, n) ==
    IF n = 0 THEN Num(0)
    ELSE NumPlus(CartTotalUnitPrices(cart, n - 1), cart[n].price)

\* the binary64 of every price that parseFloat read from the files above
\* (none is negative), worked out once
DoubleOfPrice ==
    [cents \in UNION {{ParsedCatalogs[rows][i].price.v : i \in 1..Len(rows)} :
                          rows \in DOMAIN ParsedCatalogs} |-> DoubleOfCents(cents)]

RECURSIVE totalPrice(_, _)
\* serverState.cart.reduce((total, item) => total + (item.quantity * item.price), 0)
\* over the first n lines, every price being a number: the binary64 the
\* reducer ends with
totalPrice(cart, n) ==
    IF n = 0 THEN Zero
    ELSE DoublePlus(totalPrice(cart, n - 1),
                    DoubleTimes(cart[n].quantity, DoubleOfPrice[cart[n].price.v]))

RECURSIVE ListsOf(_, _)
\* the lists of at most n elements of S
ListsOf(S, n) ==
    IF n = 0 THEN {<<>>}
    ELSE LET shorter == ListsOf(S, n - 1)
         IN  shorter \cup {Append(list, x) : list \in shorter, x \in S}

\* what the total depends on: the quantity and the price of each line
AmountsOf(cart, n) == [l \in 1..n |-> <<cart[l].quantity, cart[l].price.v>>]

\* the lists of amounts a cart can hold here: at most one line per name of
\* ItemNames ignoring case, of at most MaxLineQty units, at a price of the files
AmountLists ==
    ListsOf((1..MaxLineQty) \X DOMAIN DoubleOfPrice,
            Cardinality({toLowerCase(name) : name \in ItemNames}))

\* totalPrice.toFixed(2) in hundredths for each of these lists, worked out once
ShownTotals ==
    [amounts \in AmountLists |->
        toFixed2(totalPrice([l \in 1..Len(amounts) |->
                                [quantity |-> amounts[l][1], price |-> Num(amounts[l][2])]],
                            Len(amounts)))]

\* totalPrice.toFixed(2), the amount the handlers show for the first n lines,
\* in hundredths; a price that is NaN makes the total NaN
CartTotal(cart, n) ==
    IF \E l \in 1..n : cart[l].price.nan THEN NaN
    ELSE Num(ShownTotals[AmountsOf(cart, n)])

viewCart(s) ==
    IF Len(s.cart) = 0
    THEN [s |-> s, r |-> [NoResult EXCEPT !.tool = "viewCart", !.kind = "EmptyCart"]]
    ELSE [s |-> s, r |-> [NoResult EXCEPT !.tool = "viewCart", !.kind = "Success",
                                          !.total = CartTotal(s.cart, Len(s.cart))]]

listMenuItems(s) ==
    IF ~s.isDataLoaded
    THEN [s |-> s, r |-> [NoResult EXCEPT !.tool = "listMenuItems", !.kind = "DataNotLoaded"]]
    ELSE IF Len(s.catalog) = 0
    THEN [s |-> s, r |-> [NoResult EXCEPT !.tool = "listMenuItems", !.kind = "EmptyMenu"]]
    ELSE [s |-> s, r |-> [NoResult EXCEPT !.tool = "listMenuItems", !.kind = "Success"]]

\* answerGeneralQuestion; completion is how the text-generation call ends:
\* "ok", or "throw" when the request is rejected
answerGeneralQuestion(s, completion) ==
    IF ~s.isDataLoaded
    THEN [s |-> s, r |-> [NoResult EXCEPT !.tool = "answerGeneralQuestion", !.kind = "DataNotLoaded"]]
    ELSE IF completion = "throw"
    THEN [s |-> s, r |-> [NoResult EXCEPT !.tool = "answerGeneralQuestion", !.kind = "Throw"]]
    ELSE [s |-> s, r |-> [NoResult EXCEPT !.tool = "answerGeneralQuestion", !.kind = "Success"]]

(* ------------------------------ placeOrder ----------------------------- *)
\* variant: the two bounds are exclusive
OutsideHoursExclusive(deliveryTime, daySchedule) ==
    ~StrLess(daySchedule.OpenTime, deliveryTime) \/ ~StrLess(deliveryTime, daySchedule.CloseTime)

\* line 372: deliveryTime < daySchedule.OpenTime || deliveryTime > daySchedule.CloseTime
OutsideHours(deliveryTime, daySchedule) ==
    StrLess(deliveryTime, daySchedule.OpenTime) \/ StrLess(daySchedule.CloseTime, deliveryTime)

\* line 369: !daySchedule || daySchedule.OpenTime === 'closed'
ClosedOn(schedule, day) ==
    day \notin DOMAIN schedule \/ schedule[day].OpenTime = closed

\* variant: the delivery date is parsed before the cart is looked at
ValidateOrderDateFirst(s, deliveryDate, deliveryTime, tzHours) ==
    IF ~s.isDataLoaded THEN "DataNotLoaded"
    ELSE IF ~isValid(deliveryDate) THEN "InvalidDate"
    ELSE IF Len(s.cart) = 0 THEN "EmptyCart"
    ELSE IF ClosedOn(s.schedule, dayOfWeekOf(deliveryDate, tzHours)) THEN "ClosedOnDay"
    ELSE IF OutsideHours(deliveryTime, s.schedule[dayOfWeekOf(deliveryDate, tzHours)])
         THEN "OutsideHours"
    ELSE "Accepted"

\* lines 350-374: the checks of placeOrder in the order the handler makes them
ValidateOrder(s, deliveryDate, deliveryTime, tzHours) ==
    IF ~s.isDataLoaded THEN "DataNotLoaded"
    ELSE IF Len(s.cart) = 0 THEN "EmptyCart"
    ELSE IF ~isValid(deliveryDate) THEN "InvalidDate"
    ELSE IF ClosedOn(s.schedule, dayOfWeekOf(deliveryDate, tzHours)) THEN "ClosedOnDay"
    ELSE IF OutsideHours(deliveryTime, s.schedule[dayOfWeekOf(deliveryDate, tzHours)])
         THEN "OutsideHours"
    ELSE "Accepted"

RECURSIVE FindCatalogExact(_, _, _)
\* serverState.catalog.find(item => item.item_name === cartItem.itemName)
FindCatalogExact(catalog, itemName, i) ==
    IF i > Len(catalog) THEN 0
    ELSE IF catalog[i].item_name = itemName THEN i
    ELSE FindCatalogExact(catalog, itemName, i + 1)

\* lines 389-392: the stock update for one cart line
DecrementLine(catalog, cartItem) ==
    LET c == FindCatalogExact(catalog, cartItem.itemName, 1)
    IN  IF c # 0
        THEN [catalog EXCEPT ![c].available_quantity = NumMinus(@, cartItem.quantity)]
        ELSE catalog

RECURSIVE DecrementAll(_, _, _)
\* lines 388-393: serverState.cart.forEach(...) over the first n lines
DecrementAll(catalog, cart, n) ==
    IF n = 0 THEN catalog
    ELSE DecrementLine(DecrementAll(catalog, cart, n - 1), cart[n])

PlaceResult(kind, deliveryDate, deliveryTime) ==
    [NoResult EXCEPT !.tool = "placeOrder", !.kind = kind,
                     !.deliveryDate = deliveryDate, !.deliveryTime = deliveryTime]

\* variant: the cart is dropped before the order is validated
RejectOrderDropsCart(s) == [s EXCEPT !.cart = <<>>]

\* the early returns of lines 351-373: the state a rejected placeOrder leaves
RejectOrder(s) == s

\* variant: an accepted order leaves the cart as it is
AcceptOrderKeepsCart(s) ==
    [s EXCEPT !.catalog = DecrementAll(s.catalog, s.cart, Len(s.cart))]

\* lines 377-396: the state an accepted placeOrder leaves
AcceptOrder(s) ==
    [s EXCEPT !.catalog = DecrementAll(s.catalog, s.cart, Len(s.cart)),
              !.cart = <<>>]

placeOrder(s, deliveryDate, deliveryTime, tzHours, clock) ==
    LET v == ValidateOrder(s, deliveryDate, deliveryTime, tzHours)
        day == dayOfWeekOf(deliveryDate, tzHours)
    IN  IF v = "Accepted"
        THEN [s |-> AcceptOrder(s),
              r |-> [PlaceResult("Success", deliveryDate, deliveryTime) EXCEPT
                        !.total = CartTotal(s.cart, Len(s.cart)), !.orderId = clock]]
        ELSE IF v = "ClosedOnDay"
        THEN [s |-> RejectOrder(s),
              r |-> [PlaceResult(v, deliveryDate, deliveryTime) EXCEPT !.day = day]]
        ELSE IF v = "OutsideHours"
        THEN [s |-> RejectOrder(s),
              r |-> [PlaceResult(v, deliveryDate, deliveryTime) EXCEPT
                        !.day = day,
                        !.open = s.schedule[day].OpenTime,
                        !.close = s.schedule[day].CloseTime]]
        ELSE [s |-> RejectOrder(s), r |-> PlaceResult(v, deliveryDate, deliveryTime)]

(* ------------------------------- state --------------------------------- *)
VARIABLES serverState, tz, now, result, loadPc, loadCtx, lastOrderId, ordersJson
\* lastOrderId: the number in the "Order ID: ORD-..." line last written to
\*   stderr (line 382), -1 while no order has been accepted
\* ordersJson: the entries of the file orders.json

vars == <<serverState, tz, now, result, loadPc, loadCtx, lastOrderId, ordersJson>>

\* no load is in flight
NoCtx == Disk(ReadError, ReadError, ReadError)

Init ==
    /\ serverState = InitState
    /\ tz \in TzOffsets
    /\ now = 0
    /\ result = NoResult
    /\ loadPc = "idle"
    /\ loadCtx = NoCtx
    /\ lastOrderId = -1
    /\ ordersJson = <<>>

\* no cart line of the cart exceeds the model's bound
WithinBound(cart) == \A i \in 1..Len(cart) : cart[i].quantity <= MaxLineQty

Return(o) ==
    /\ serverState' = o.s
    /\ result' = o.r

Load ==
    /\ loadPc = "idle"
    /\ \E disk \in Disks :
           Return(loadRestaurantData(serverState, disk.pdf, disk.cat, disk.sch))
    /\ UNCHANGED <<tz, now, loadPc, loadCtx, lastOrderId, ordersJson>>

AnswerGeneralQuestion ==
    /\ \E c \in Completions : Return(answerGeneralQuestion(serverState, c))
    /\ UNCHANGED <<tz, now, loadPc, loadCtx, lastOrderId, ordersJson>>

ListMenuItems ==
    /\ LET o == listMenuItems(serverState) IN Return(o)
    /\ UNCHANGED <<tz, now, loadPc, loadCtx, lastOrderId, ordersJson>>

AddItemToCart ==
    /\ \E n \in ItemNames, q \in 1..MaxQty :
           LET o == addItemToCart(serverState, n, q)
           IN  WithinBound(o.s.cart) /\ Return(o)
    /\ UNCHANGED <<tz, now, loadPc, loadCtx, lastOrderId, ordersJson>>

ViewCart ==
    /\ LET o == viewCart(serverState) IN Return(o)
    /\ UNCHANGED <<tz, now, loadPc, loadCtx, lastOrderId, ordersJson>>

\* now is the latest reading of Date.now(); an accepted order reads the clock
\* at line 377, which has advanced by elapsed milliseconds since that reading,
\* and a rejected order does not read it.  The handler writes the order to
\* stderr (lines 381-385) and to nothing else.
PlaceOrder ==
    /\ \E delivery \in Deliveries :
           LET d == delivery[1]
               t == delivery[2]
               accepted == ValidateOrder(serverState, d, t, tz) = "Accepted"
           IN  \E elapsed \in IF accepted THEN 0..1 ELSE {0} :
                   /\ now + elapsed <= MaxClock
                   /\ LET o == placeOrder(serverState, d, t, tz, now + elapsed) IN Return(o)
                   /\ now' = now + elapsed
                   /\ lastOrderId' = IF accepted THEN now + elapsed ELSE lastOrderId
    /\ UNCHANGED <<tz, loadPc, loadCtx, ordersJson>>

\* one call at a time, each awaited before the next (src/client.ts)
Next ==
    \/ Load
    \/ AnswerGeneralQuestion
    \/ ListMenuItems
    \/ AddItemToCart
    \/ ViewCart
    \/ PlaceOrder

Spec == Init /\ [][Next]_vars

(* ---------------- loadRestaurantData under concurrent dispatch ---------- *)
\* The handler suspends at each of its three awaits; a host that dispatches
\* calls as they arrive runs other handlers meanwhile.  One load is followed
\* at a time, together with the two other handlers that write serverState;
\* the files do not change while that load reads them.
\* the disks read by a load that other handlers interleave with
ConcurrentDisks ==
    {Disk(Story, File("", CatMenu), File("", SchWeek)),
     Disk(Story, File("", CatRecased), File("", SchShift)),
     Disk(ReadError, File("", CatMenu), File("", SchWeek)),
     Disk(Story, ReadError, File("", SchWeek)),
     Disk(Story, File("", CatRecased), ReadError)}

LoadBegin ==
    /\ loadPc = "idle"
    /\ \E disk \in ConcurrentDisks :
           IF disk.pdf.ok
           THEN /\ loadPc' = "awaitPdf"
                /\ loadCtx' = disk
                /\ UNCHANGED <<serverState, result>>
           ELSE /\ result' = LoadResult(TRUE)
                /\ UNCHANGED <<serverState, loadPc, loadCtx>>
    /\ UNCHANGED <<tz, now, lastOrderId, ordersJson>>

LoadResumePdf ==
    /\ loadPc = "awaitPdf"
    /\ serverState' = LoadInfoStep(serverState, loadCtx.pdf).s
    /\ IF loadCtx.cat.ok
       THEN /\ loadPc' = "awaitCatalog"
            /\ UNCHANGED <<result, loadCtx>>
       ELSE /\ loadPc' = "idle"
            /\ loadCtx' = NoCtx
            /\ result' = LoadResult(TRUE)
    /\ UNCHANGED <<tz, now, lastOrderId, ordersJson>>

LoadResumeCatalog ==
    /\ loadPc = "awaitCatalog"
    /\ serverState' = LoadCatalogStep(serverState, loadCtx.cat).s
    /\ IF loadCtx.sch.ok
       THEN /\ loadPc' = "awaitSchedule"
            /\ UNCHANGED <<result, loadCtx>>
       ELSE /\ loadPc' = "idle"
            /\ loadCtx' = NoCtx
            /\ result' = LoadResult(TRUE)
    /\ UNCHANGED <<tz, now, lastOrderId, ordersJson>>

LoadResumeSchedule ==
    /\ loadPc = "awaitSchedule"
    /\ LET c == LoadScheduleStep(serverState, loadCtx.sch)
       IN  serverState' = c.s /\ result' = LoadResult(c.failed)
    /\ loadPc' = "idle"
    /\ loadCtx' = NoCtx
    /\ UNCHANGED <<tz, now, lastOrderId, ordersJson>>

NextConc ==
    \/ LoadBegin
    \/ LoadResumePdf
    \/ LoadResumeCatalog
    \/ LoadResumeSchedule
    \/ AddItemToCart
    \/ PlaceOrder

SpecConc == Init /\ [][NextConc]_vars

(* ------------------------------- claims -------------------------------- *)
\* the step is a call of the tool: it is the only handler that leaves this
\* tool name in result, and a call that changes neither the state nor the
\* result repeats a call already seen from the same state
Called(tool) ==
    /\ result'.tool = tool
    /\ <<serverState, result>>' # <<serverState, result>>

Catalog == serverState.catalog
Cart == serverState.cart

SameName(a, b) == ~IsUndef(a) /\ ~IsUndef(b) /\ toLowerCase(a) = toLowerCase(b)

\* C1: every catalog item's available_quantity is >= 0 in every reachable
\* state, the loaded rows having non-negative quantities
StockNeverNegative ==
    \A i \in 1..Len(Catalog) :
        ~Catalog[i].available_quantity.nan => Catalog[i].available_quantity.v >= 0

\* some cart line asks for more than its catalog item has now
LateStockShort(s) ==
    \E l \in 1..Len(s.cart), i \in 1..Len(s.catalog) :
        /\ SameName(s.cart[l].itemName, s.catalog[i].item_name)
        /\ NumLess(s.catalog[i].available_quantity, s.cart[l].quantity)

\* C2: a placeOrder that passes the schedule validation while a cart line
\* exceeds its item's current stock is rejected as StockChanged and changes
\* neither catalog nor cart
StockChangedRejectsWholeOrder ==
    [][(/\ Called("placeOrder")
        /\ ValidateOrder(serverState, result'.deliveryDate, result'.deliveryTime, tz) = "Accepted"
        /\ LateStockShort(serverState))
       => (result'.kind = "StockChanged" /\ serverState' = serverState)]_vars

\* C3: a loadRestaurantData that fails leaves restaurantInfo, catalog,
\* schedule and isDataLoaded as they were before the call
FailedLoadLeavesStateUntouched ==
    [][(Called("loadRestaurantData") /\ result'.kind = "LoadError")
       => /\ serverState'.restaurantInfo = serverState.restaurantInfo
          /\ serverState'.catalog = serverState.catalog
          /\ serverState'.schedule = serverState.schedule
          /\ serverState'.isDataLoaded = serverState.isDataLoaded]_vars

\* C4: no catalog item with a missing field or a non-numeric price or quantity
\* is ever stored in the session state
InvalidRowsNeverStored ==
    \A i \in 1..Len(Catalog) :
        /\ ~IsUndef(Catalog[i].item_name)
        /\ ~Catalog[i].price.nan
        /\ ~Catalog[i].available_quantity.nan

RejectKinds == {"DataNotLoaded", "EmptyCart", "InvalidDate", "ClosedOnDay", "OutsideHours"}

\* C5: a rejected placeOrder leaves the cart and every catalog item's
\* available_quantity exactly as they were before the call
RejectedOrderChangesNothing ==
    [][(Called("placeOrder") /\ result'.kind \in RejectKinds)
       => /\ serverState'.cart = serverState.cart
          /\ serverState'.catalog = serverState.catalog]_vars

\* C5 witness: two Buns in the cart, Bun stock 2, and the order was rejected
\* for a closed day
RejectedOnClosedDayReached ==
    /\ result.tool = "placeOrder"
    /\ result.kind = "ClosedOnDay"
    /\ \E l \in 1..Len(Cart) : Cart[l].itemName = Bun /\ Cart[l].quantity = 2
    /\ \E i \in 1..Len(Catalog) :
           Catalog[i].item_name = Bun /\ Catalog[i].available_quantity = Num(2)

\* the cart line of the catalog item at index i, 0 when it has none
LineOf(s, i) ==
    IF \E l \in 1..Len(s.cart) : SameName(s.cart[l].itemName, s.catalog[i].item_name)
    THEN CHOOSE l \in 1..Len(s.cart) : SameName(s.cart[l].itemName, s.catalog[i].item_name)
    ELSE 0

\* C6: after a successful placeOrder the cart is empty, every catalog item
\* that had a cart line is reduced by exactly that line's quantity, and every
\* other catalog item keeps its available_quantity
OrderDecrementsExactlyThePlacedLines ==
    [][(Called("placeOrder") /\ result'.kind = "Success")
       => /\ serverState'.cart = <<>>
          /\ Len(serverState'.catalog) = Len(Catalog)
          /\ \A i \in 1..Len(Catalog) :
                 serverState'.catalog[i].available_quantity =
                     IF LineOf(serverState, i) = 0
                     THEN Catalog[i].available_quantity
                     ELSE NumMinus(Catalog[i].available_quantity,
                                   Cart[LineOf(serverState, i)].quantity)]_vars

\* C7: loadRestaurantData never changes the cart, whether it succeeds or fails
LoadKeepsCart ==
    [][Called("loadRestaurantData") => serverState'.cart = serverState.cart]_vars

\* C7 witness: a reload succeeded while the cart held a line
ReloadWithCartReached ==
    /\ result.tool = "loadRestaurantData"
    /\ result.kind = "Success"
    /\ Len(Cart) > 0

\* C8: while a loadRestaurantData is between its start and its completion, no
\* other handler changes the session state
MutualExclusion ==
    [][(loadPc # "idle" /\ loadPc' = loadPc) => serverState' = serverState]_vars

\* the outcome the documented order of checks gives; day is the weekday the
\* handler resolved for the delivery date
OutcomeInOrder(s, deliveryDate, deliveryTime, day) ==
    IF ~s.isDataLoaded THEN "DataNotLoaded"
    ELSE IF s.cart = <<>> THEN "EmptyCart"
    ELSE IF ~isValid(deliveryDate) THEN "InvalidDate"
    ELSE IF day \notin DOMAIN s.schedule \/ s.schedule[day].OpenTime = closed THEN "ClosedOnDay"
    ELSE IF \/ StrLess(deliveryTime, s.schedule[day].OpenTime)
            \/ StrLess(s.schedule[day].CloseTime, deliveryTime) THEN "OutsideHours"
    ELSE "Success"

\* C9: placeOrder reports the first failing check in the order data not
\* loaded, empty cart, unparseable date, closed day, outside hours, and
\* succeeds only when all five pass
ChecksInFixedOrder ==
    [][Called("placeOrder")
       => result'.kind = OutcomeInOrder(serverState, result'.deliveryDate, result'.deliveryTime,
                                        dayOfWeekOf(result'.deliveryDate, tz))]_vars

\* C9 witness: an order with an empty cart and an unparseable date was
\* rejected for the empty cart
EmptyCartBeforeDateReached ==
    /\ result.tool = "placeOrder"
    /\ result.kind = "EmptyCart"
    /\ ~isValid(result.deliveryDate)
    /\ serverState.isDataLoaded

\* s is a zero-padded HH:MM text
IsHHMM(s) ==
    /\ Len(s) = 5
    /\ s[3] = 58
    /\ \A k \in {1, 2, 4, 5} : IsDigit(s[k])

\* minute of the day of an HH:MM text
MinuteOfDay(s) == ((s[1] - 48) * 10 + (s[2] - 48)) * 60 + (s[4] - 48) * 10 + (s[5] - 48)

\* the first four checks pass for the call that just returned
ReachedTimeCheck(s, deliveryDate, day) ==
    /\ s.isDataLoaded
    /\ s.cart # <<>>
    /\ isValid(deliveryDate)
    /\ day \in DOMAIN s.schedule
    /\ s.schedule[day].OpenTime # closed

\* C10: on an open day with zero-padded HH:MM open and close times the order
\* passes the time check exactly when openTime <= deliveryTime <= closeTime as
\* times of day, both bounds included, and is otherwise rejected as outside
\* hours
HoursInclusive ==
    [][LET day == dayOfWeekOf(result'.deliveryDate, tz)
       IN  (/\ Called("placeOrder")
            /\ ReachedTimeCheck(serverState, result'.deliveryDate, day)
            /\ IsHHMM(serverState.schedule[day].OpenTime)
            /\ IsHHMM(serverState.schedule[day].CloseTime))
           => LET inside ==
                      /\ MinuteOfDay(serverState.schedule[day].OpenTime) <= MinuteOfDay(result'.deliveryTime)
                      /\ MinuteOfDay(result'.deliveryTime) <= MinuteOfDay(serverState.schedule[day].CloseTime)
              IN  result'.kind = IF inside THEN "Success" ELSE "OutsideHours"]_vars

\* C10 witness: an order was accepted for a delivery time equal to the
\* closing time of its day
AcceptedAtCloseReached ==
    /\ result.tool = "placeOrder"
    /\ result.kind = "Success"
    /\ LET day == dayOfWeekOf(result.deliveryDate, tz)
       IN  /\ day \in DOMAIN serverState.schedule
           /\ serverState.schedule[day].CloseTime = result.deliveryTime

\* a >= n for an integer n (false when a is NaN)
NumGeq(a, n) == ~a.nan /\ a.v >= n

\* C11: with data loaded, addItemToCart(name, q) succeeds exactly when some
\* catalog item's name equals name ignoring case and that item's current
\* available_quantity is >= q, whatever the cart already holds
AddSucceedsIffInStock ==
    [][(Called("addItemToCart") /\ serverState.isDataLoaded)
       => (result'.kind = "Success"
           <=> \E i \in 1..Len(Catalog) :
                   /\ SameName(Catalog[i].item_name, result'.itemName)
                   /\ NumGeq(Catalog[i].available_quantity, result'.quantity))]_vars

\* no two lines of the cart have the same name ignoring case
OneLinePerName(cart) ==
    \A i, j \in 1..Len(cart) :
        i # j => toLowerCase(cart[i].itemName) # toLowerCase(cart[j].itemName)

\* the lines of cart whose name is name ignoring case
LinesNamed(cart, name) ==
    {l \in 1..Len(cart) : toLowerCase(cart[l].itemName) = toLowerCase(name)}

\* C12: the cart never holds two lines for one item name compared ignoring
\* case, and a successful addItemToCart for an item that has a line adds the
\* quantity to that line and appends nothing
CartOneLinePerName ==
    [][/\ OneLinePerName(serverState'.cart)
       /\ (/\ Called("addItemToCart")
           /\ result'.kind = "Success"
           /\ LinesNamed(Cart, result'.itemName) # {})
          => /\ Len(serverState'.cart) = Len(Cart)
             /\ \A l \in 1..Len(Cart) :
                    /\ serverState'.cart[l].itemName = Cart[l].itemName
                    /\ serverState'.cart[l].quantity =
                           IF l \in LinesNamed(Cart, result'.itemName)
                           THEN Cart[l].quantity + result'.quantity
                           ELSE Cart[l].quantity]_vars

\* C12 witness: Bun was added, then bun: the cart holds the one line Bun with
\* both quantities
MergedRecasedAddReached ==
    /\ result.tool = "addItemToCart"
    /\ result.kind = "Success"
    /\ result.itemName = bun
    /\ result.quantity = 1
    /\ Cart = <<[itemName |-> Bun, quantity |-> 2, price |-> Num(500)]>>

\* C13: a cart line's price is the catalog price of its item when the line
\* was created, and no later step changes it: every line that a step keeps
\* keeps its price, whether the step is an addItemToCart of the same item or
\* a reload that re-prices the item
LinePriceIsFirstSnapshot ==
    [][/\ \A l \in 1..Len(Cart) :
              l <= Len(serverState'.cart) => serverState'.cart[l].price = Cart[l].price
       /\ (Called("addItemToCart") /\ Len(serverState'.cart) = Len(Cart) + 1)
          => \E i \in 1..Len(Catalog) :
                 /\ FindCatalogCI(Catalog, result'.itemName, 1) = i
                 /\ serverState'.cart[Len(Cart) + 1].price = Catalog[i].price]_vars

\* C13 witness: a line created at 5.00 was added to again after a reload
\* re-priced its item at 6.20, and is still at 5.00
MergedAfterRepriceReached ==
    /\ result.tool = "addItemToCart"
    /\ result.kind = "Success"
    /\ \E l \in 1..Len(Cart), i \in 1..Len(Catalog) :
           /\ SameName(Cart[l].itemName, Catalog[i].item_name)
           /\ SameName(Cart[l].itemName, result.itemName)
           /\ Cart[l].quantity = 2
           /\ Cart[l].price = Num(500)
           /\ Catalog[i].price = Num(620)

AddRejectKinds == {"DataNotLoaded", "ItemNotFound", "InsufficientStock"}

\* C14: a rejected addItemToCart leaves the cart and the catalog unchanged,
\* and the insufficient-stock rejection reports the current
\* available_quantity of the item the name resolves to
RejectedAddChangesNothing ==
    [][(Called("addItemToCart") /\ result'.kind \in AddRejectKinds)
       => /\ serverState'.cart = Cart
          /\ serverState'.catalog = Catalog
          /\ result'.kind = "InsufficientStock"
             => \E i \in 1..Len(Catalog) :
                    /\ FindCatalogCI(Catalog, result'.itemName, 1) = i
                    /\ NumLess(Catalog[i].available_quantity, result'.quantity)
                    /\ result'.avail = Catalog[i].available_quantity]_vars

\* C14 witness: two Pies were asked for while one was available and one was
\* already in the cart, and the rejection reported 1
RejectedAddReportsStockReached ==
    /\ result.tool = "addItemToCart"
    /\ result.kind = "InsufficientStock"
    /\ result.itemName = Pie
    /\ result.quantity = 2
    /\ result.avail = Num(1)
    /\ \E l \in 1..Len(Cart) : Cart[l].itemName = Pie /\ Cart[l].quantity = 1

\* C15: any two successful placeOrder calls return distinct order IDs, also
\* when the second reads the clock within the same millisecond as the first;
\* the IDs never decrease, so it is enough that each differs from the last
OrderIdsDistinct ==
    [][(Called("placeOrder") /\ result'.kind = "Success" /\ lastOrderId # -1)
       => result'.orderId # lastOrderId]_vars

\* C16: every tool call ends by returning a text result; no handler lets a
\* failure escape it, the failure of the text-generation call included
EveryCallReturnsText == result.kind # "Throw"

ToolsCheckingLoaded ==
    {"answerGeneralQuestion", "listMenuItems", "addItemToCart", "viewCart", "placeOrder"}

\* C17: each of the five tools, called while isDataLoaded is false, returns
\* the data-not-loaded error and leaves the session state unchanged
NotLoadedIsRejectedByEveryTool ==
    [][(/\ \E tool \in ToolsCheckingLoaded : Called(tool)
        /\ ~serverState.isDataLoaded)
       => /\ result'.kind = "DataNotLoaded"
          /\ serverState' = serverState]_vars

\* the record of the order that the step accepted
OrderRecord ==
    [orderId |-> result'.orderId,
     lines |-> Cart,
     total |-> result'.total,
     deliveryDate |-> result'.deliveryDate,
     deliveryTime |-> result'.deliveryTime]

\* C18: every successful placeOrder appends the completed order record to
\* the durable order log, and a rejected placeOrder appends nothing
EveryOrderIsLogged ==
    [][Called("placeOrder")
       => ordersJson' = IF result'.kind = "Success"
                        THEN Append(ordersJson, OrderRecord)
                        ELSE ordersJson]_vars

RECURSIVE LineSum(_, _)
\* the sum of quantity times price, in hundredths, over the lines in S
LineSum(cart, S) ==
    IF S = {} THEN 0
    ELSE LET l == CHOOSE l \in S : TRUE
         IN  cart[l].quantity * cart[l].price.v + LineSum(cart, S \ {l})

\* the sum over all lines; no number when some line's price is none
SumOfLines(cart) ==
    IF \E l \in 1..Len(cart) : cart[l].price.nan THEN NaN
    ELSE Num(LineSum(cart, 1..Len(cart)))

\* C19: the total viewCart reports and the total placeOrder computes for the
\* cart it places are the sum over the cart's lines of quantity times the
\* line's price snapshot
TotalIsSumOfLines ==
    [][((Called("viewCart") \/ Called("placeOrder")) /\ result'.kind = "Success")
       => result'.total = SumOfLines(Cart)]_vars

\* C19 witness: viewCart reported 13.33 for two Buns at 5.00 and one Pie at
\* 3.33
TotalOfTwoLinesReached ==
    /\ result.tool = "viewCart"
    /\ result.kind = "Success"
    /\ result.total = Num(1333)
    /\ Len(Cart) = 2
    /\ \E l \in 1..2 : Cart[l].quantity = 2 /\ Cart[l].price = Num(500)

\* C20: the cart total is computed with exact decimal arithmetic: the Number
\* the reducer of viewCart ends with is the decimal sum of quantity times
\* price itself, as 9.99 is for three units at 3.33, and not a neighbouring
\* Number such as 9.990000000000001
TotalIsExactDecimal ==
    (result.tool = "viewCart" /\ result.kind = "Success" /\ ~result.total.nan)
        => totalPrice(Cart, Len(Cart)) = DoubleOfCents(LineSum(Cart, 1..Len(Cart)))

\* what a load writes besides the reply
LoadedPart(s) == <<s.catalog, s.schedule, s.restaurantInfo, s.isDataLoaded>>

\* C21: reload is idempotent and replaces in full: from every reachable state,
\* a load that succeeds leaves the catalog, schedule, restaurantInfo and
\* isDataLoaded that a load of the same files leaves on the state as
\* constructed (stock that orders decremented is back at the loaded values,
\* whatever was called before), and a second load of the same files right
\* after it succeeds and leaves the four as they are
ReloadIsIdempotent ==
    \A disk \in Disks :
        LET first == loadRestaurantData(serverState, disk.pdf, disk.cat, disk.sch)
            second == loadRestaurantData(first.s, disk.pdf, disk.cat, disk.sch)
            fresh == loadRestaurantData(InitState, disk.pdf, disk.cat, disk.sch)
        IN  first.r.kind = "Success" =>
                /\ second.r.kind = "Success"
                /\ LoadedPart(second.s) = LoadedPart(first.s)
                /\ LoadedPart(first.s) = LoadedPart(fresh.s)

\* C21 witness: a reload after an accepted order has put the stock of Bun and
\* Pie back at 2 and 1, with a cart in place
ReloadAfterOrderReached ==
    /\ result.tool = "loadRestaurantData"
    /\ result.kind = "Success"
    /\ lastOrderId >= 0
    /\ Len(Cart) > 0
    /\ Catalog = ParsedCatalogs[CatMenu]

\* C22: the catalog changes only in loadRestaurantData and in an accepted
\* placeOrder: a step of answerGeneralQuestion, listMenuItems, addItemToCart
\* or viewCart, or a rejected placeOrder, leaves every item's name, price and
\* available_quantity as it was
CatalogChangesOnlyInLoadAndOrder ==
    [][Catalog' # Catalog
          => \/ result'.tool = "loadRestaurantData"
             \/ result'.tool = "placeOrder" /\ result'.kind = "Success"]_vars

\* C22 witness: two Buns were added to the cart and the catalog still holds
\* the loaded stock of 2
AddLeftStockReached ==
    /\ result.tool = "addItemToCart"
    /\ result.kind = "Success"
    /\ result.quantity = 2
    /\ Len(Cart) = 1
    /\ Cart[1].quantity = 2
    /\ Catalog = ParsedCatalogs[CatMenu]

\* C23: after a successful load the catalog holds at most one item per name
\* compared without regard to case, also when the rows read hold duplicate or
\* case-variant names
LoadedCatalogHasOneItemPerName ==
    (result.tool = "loadRestaurantData" /\ result.kind = "Success")
        => \A i, j \in 1..Len(Catalog) :
               SameName(Catalog[i].item_name, Catalog[j].item_name) => i = j

\* C24: the weekday placeOrder looks up in the schedule is the weekday of the
\* calendar date passed as deliveryDate, on every host: the day named in a
\* closed-day or outside-hours reply is that weekday whatever the host's
\* offset from UTC
WeekdayIsThatOfTheDate ==
    (result.tool = "placeOrder" /\ result.kind \in {"ClosedOnDay", "OutsideHours"})
        => result.day = WeekdayOfDay(DaysFromCivil(result.deliveryDate))

\* the weekday a schedule key or a DayOfWeek cell names
DayNamed(text) == trim(toLowerCase(text))

\* no two entries of the schedule are for one weekday
OneEntryPerDay(schedule) ==
    \A a, b \in DOMAIN schedule : DayNamed(a) = DayNamed(b) => a = b

\* the rows of a schedule file whose every named day has both of its cells
Complete(rows) ==
    \A i \in 1..Len(rows) :
        Truthy(rows[i].DayOfWeek) => ~IsUndef(rows[i].OpenTime) /\ ~IsUndef(rows[i].CloseTime)

\* one entry per weekday the rows name, holding the hours of the last row that
\* names it
ScheduleByLastRow(rows) ==
    LET named == {i \in 1..Len(rows) : Truthy(rows[i].DayOfWeek)}
        last(day) == CHOOSE i \in named :
                         /\ DayNamed(rows[i].DayOfWeek) = day
                         /\ \A j \in named : DayNamed(rows[j].DayOfWeek) = day => j <= i
    IN  [day \in {DayNamed(rows[i].DayOfWeek) : i \in named} |->
            [OpenTime |-> trim(rows[last(day)].OpenTime),
             CloseTime |-> trim(rows[last(day)].CloseTime)]]

\* what the schedule files that can be read in full make by that rule
SchedulesByLastRow ==
    {ScheduleByLastRow(disk.sch.rows) : disk \in {d \in Disks : d.sch.ok /\ Complete(d.sch.rows)}}

\* C25: the schedule has at most one entry per weekday, a later row for a day
\* replacing an earlier one when a load succeeds, and it changes only in
\* loadRestaurantData: no step of another tool, placeOrder accepted or
\* rejected included, modifies it.  The schedule as constructed is empty, so
\* one entry per weekday after every change is one entry per weekday always.
ScheduleOnePerDayAndLoadOnly ==
    [][/\ serverState'.schedule # serverState.schedule
              => /\ result'.tool = "loadRestaurantData"
                 /\ OneEntryPerDay(serverState'.schedule)
       /\ (Called("loadRestaurantData") /\ result'.kind = "Success")
              => serverState'.schedule \in SchedulesByLastRow]_vars

\* C25 witness: the rows "Monday ",09:00,21:00 and "monday"," 09:00","17:00"
\* were loaded into the one entry monday 09:00-17:00, and an order was then
\* accepted with the schedule as loaded
OrderAfterTwoMondayRowsReached ==
    /\ result.tool = "placeOrder"
    /\ result.kind = "Success"
    /\ DOMAIN serverState.schedule = {monday, tuesday}
    /\ serverState.schedule[monday] = [OpenTime |-> T0900, CloseTime |-> T1700]

\* ScheduleByLastRow of the schedule files that can be read in full
ScheduleOfRows ==
    [rows \in {disk.sch.rows : disk \in {d \in Disks : d.sch.ok /\ Complete(d.sch.rows)}} |->
        ScheduleByLastRow(rows)]

\* the schedule has the weekday open and the time within its hours
Permits(schedule, day, deliveryTime) ==
    /\ day \in DOMAIN schedule
    /\ schedule[day].OpenTime # closed
    /\ ~StrLess(deliveryTime, schedule[day].OpenTime)
    /\ ~StrLess(schedule[day].CloseTime, deliveryTime)

\* the last call was a placeOrder refused for the day or the hour
RefusedBySchedule ==
    result.tool = "placeOrder" /\ result.kind \in {"ClosedOnDay", "OutsideHours"}

\* the reply to the refused call when it is repeated after a load of disk
RepeatedAfterLoad(disk) ==
    LET reloaded == loadRestaurantData(serverState, disk.pdf, disk.cat, disk.sch)
    IN  [loaded |-> reloaded.r.kind = "Success",
         kind |-> placeOrder(reloaded.s, result.deliveryDate, result.deliveryTime, tz, now).r.kind]

\* C26: placeOrder validates against the current state on every call and
\* remembers no earlier verdict: after a placeOrder refused as closed or
\* outside hours, with the cart as it was, the same call repeated after a
\* successful reload is accepted when the schedule just read permits that day
\* and time, and refused when it does not
ValidationFollowsReloadedSchedule ==
    RefusedBySchedule =>
        \A disk \in Disks :
            RepeatedAfterLoad(disk).loaded =>
                (RepeatedAfterLoad(disk).kind = "Success"
                    <=> Permits(ScheduleOfRows[disk.sch.rows],
                                dayOfWeekOf(result.deliveryDate, tz), result.deliveryTime))

\* C26 witness: an order for 09:00 was refused because the day is closed, and
\* the same call is accepted once the other schedule is loaded
RefusedThenAcceptedAfterReloadReached ==
    /\ result.tool = "placeOrder"
    /\ result.kind = "ClosedOnDay"
    /\ result.deliveryTime = T0900
    /\ \E disk \in Disks :
           RepeatedAfterLoad(disk).loaded /\ RepeatedAfterLoad(disk).kind = "Success"

\* C27: an accepted placeOrder matches every cart line to a catalog item and
\* takes the line's quantity from that item's stock: no line is skipped, also
\* when the cart was filled before a reload that renamed, re-cased or removed
\* the item
EveryPlacedLineIsDecremented ==
    [][(Called("placeOrder") /\ result'.kind = "Success")
          => /\ Len(serverState'.catalog) = Len(Catalog)
             /\ \A l \in 1..Len(Cart) :
                    \E c \in 1..Len(Catalog) :
                        /\ SameName(Catalog[c].item_name, Cart[l].itemName)
                        /\ serverState'.catalog[c].available_quantity =
                               NumMinus(Catalog[c].available_quantity, Cart[l].quantity)]_vars

\* C28: isDataLoaded is false until a loadRestaurantData call has succeeded,
\* and from then on it is true in every state: the only step that changes it
\* is a successful load setting it, and no tool call and no failed reload
\* sets it back
LoadedOnceAndForAll ==
    /\ ~serverState.isDataLoaded
    /\ [][/\ serverState'.isDataLoaded # serverState.isDataLoaded
                 => /\ serverState'.isDataLoaded
                    /\ result'.tool = "loadRestaurantData"
                    /\ result'.kind = "Success"
          /\ (Called("loadRestaurantData") /\ result'.kind = "Success")
                 => serverState'.isDataLoaded]_vars

\* C28 witness: a reload has failed on a server whose data was loaded, and
\* isDataLoaded is still true
LoadedAfterFailedReloadReached ==
    /\ result.tool = "loadRestaurantData"
    /\ result.kind = "LoadError"
    /\ serverState.isDataLoaded

\* C29: an order cannot be placed twice: in the state an accepted placeOrder
\* leaves, a placeOrder call, whatever its date and time, is refused with the
\* empty-cart error and changes neither the stock nor anything else of the
\* session state
OrderCannotBePlacedTwice ==
    (result.tool = "placeOrder" /\ result.kind = "Success")
        => \A delivery \in Deliveries :
               LET again == placeOrder(serverState, delivery[1], delivery[2], tz, now)
               IN  again.r.kind = "EmptyCart" /\ again.s = serverState

\* C29 witness: the order for the two Buns in stock was accepted; the cart is
\* empty and the stock of Bun is 0
OrderTookAllBunsReached ==
    /\ result.tool = "placeOrder"
    /\ result.kind = "Success"
    /\ Len(Cart) = 0
    /\ \E c \in 1..Len(Catalog) :
           Catalog[c].item_name = Bun /\ Catalog[c].available_quantity = Num(0)

====
